---- MODULE Spec2Model ----
(***************************************************************************)
(* Model of the textrender overlay (src/src/lib.rs): the two draw-call     *)
(* interceptors (producers), the global TEXT_RENDER_QUEUE, the per-frame   *)
(* DebugTextRender::render consumer, and the pure helpers they call        *)
(* (u16_ptr_to_string, window_size, window_resolution, the per-mode        *)
(* coordinate transform).                                                  *)
(*                                                                         *)
(* f32 values are modelled as extended rationals [n, d] in lowest terms:   *)
(* d > 0 is the finite value n/d, 1/0 is +inf, -1/0 is -inf and 0/0 is NaN.*)
(* Rounding, signed zero and overflow of finite operands are not modelled. *)
(***************************************************************************)
EXTENDS Integers, Sequences, FiniteSets, TLC

VARIABLES
  queue,      \* TEXT_RENDER_QUEUE: the queued DrawCommands, oldest first
  offset,     \* DebugTextRender.offset (self.offset)
  rpc,        \* position of the render callback: "idle", "drain", "panicked"
  ppc,        \* per producer thread: "idle", or "mid" between the two pushes of DrawTextWithOffset
  pargs,      \* per producer thread: the arguments of the DrawTextWithOffset call in progress
  camera,     \* name of what CSCamera::instance() gives right now
  window,     \* name of what CSWindowImp::instance() gives right now
  rendman,    \* TRUE iff RendMan::instance() is Ok right now
  calls,      \* history: number of interceptor invocations started so far
  pushed,     \* history: every command force_push'ed, in push order
  popped,     \* history: every command popped, in pop order, with what render did with it
  evicted,    \* history: number of commands force_push dropped from a full queue
  backlog,    \* history: Len(queue) when the drain loop in progress started
  pops,       \* history: number of commands the drain loop in progress has popped
  quiet,      \* history: a render invocation has started and nothing was pushed since
  mem,        \* the wide-character buffer handed to the decoder (function-level specification)
  result      \* the last value returned by a helper (function-level specification)

vars == <<queue, offset, rpc, ppc, pargs, camera, window, rendman, calls,
          pushed, popped, evicted, backlog, pops, quiet, mem, result>>

----------------------------------------------------------------------------
(* Bounds of the model *)

\* capacity of the queue in the model; the program's is 1024 * 10 (lib.rs:32)
QueueCap == 2
\* number of concurrent producer threads calling the interceptors
NumProducers == 2
\* total number of interceptor invocations in one run
MaxCalls == 2
\* number of u16 code units in the buffers handed to the decoder
MaxUnits == 3

Producers == 1..NumProducers

----------------------------------------------------------------------------
(* f32 arithmetic *)

Abs(i) == IF i < 0 THEN -i ELSE i

Sgn(i) == IF i < 0 THEN -1 ELSE IF i > 0 THEN 1 ELSE 0

RECURSIVE GCD(_, _)
GCD(a, b) == IF b = 0 THEN a ELSE GCD(b, a % b)

\* the f32 with value n/d (d >= 0), in lowest terms
Norm(n, d) ==
  IF d = 0 THEN [n |-> Sgn(n), d |-> 0]
  ELSE LET g == GCD(Abs(n), d) IN [n |-> n \div g, d |-> d \div g]

F(i) == [n |-> i, d |-> 1]
Frac(n, d) == Norm(n, d)
NaN == [n |-> 0, d |-> 0]
PInf == [n |-> 1, d |-> 0]
Zero == F(0)
Half == Frac(1, 2)

is_finite(a) == a.d > 0
IsNaN(a) == a.d = 0 /\ a.n = 0

FNeg(a) == [n |-> -a.n, d |-> a.d]

FMul(a, b) == Norm(a.n * b.n, a.d * b.d)

FRecip(a) == IF a.n < 0 THEN Norm(-a.d, -a.n) ELSE Norm(a.d, a.n)

FDiv(a, b) == FMul(a, FRecip(b))

FAdd(a, b) ==
  IF a.d = 0 /\ b.d = 0
  THEN (IF a.n = b.n THEN a ELSE NaN)
  ELSE Norm(a.n * b.d + b.n * a.d, a.d * b.d)

FSub(a, b) == FAdd(a, FNeg(b))

\* a <= 0.0 (false for NaN)
FLeZero(a) == ~IsNaN(a) /\ a.n <= 0

\* nalgebra Vector3 dot product and difference
Dot(u, v) == FAdd(FAdd(FMul(u[1], v[1]), FMul(u[2], v[2])), FMul(u[3], v[3]))
VSub(u, v) == <<FSub(u[1], v[1]), FSub(u[2], v[2]), FSub(u[3], v[3])>>

\* angles are named; Tan gives tan of the half angle for the named angles used
HalfAngle(fov) ==
  CASE fov = "pi/2"        -> "pi/4"
    [] fov = "-pi/2"       -> "-pi/4"
    [] fov = "0"           -> "0"
    [] fov = "2*atan(1/2)" -> "atan(1/2)"

Tan(a) ==
  CASE a = "pi/4"      -> F(1)
    [] a = "-pi/4"     -> F(-1)
    [] a = "0"         -> Zero
    [] a = "atan(1/2)" -> Half

----------------------------------------------------------------------------
(* Text decoding: u16_ptr_to_string *)

\* the string "?EncodingError?" as Unicode scalar values
EncodingError == <<63, 69, 110, 99, 111, 100, 105, 110, 103, 69, 114, 114, 111, 114, 63>>

IsHighSurrogate(u) == u >= 55296 /\ u <= 56319
IsLowSurrogate(u) == u >= 56320 /\ u <= 57343

\* number of leading non-zero units of the memory at ptr; the memory after
\* the modelled units is the terminating NUL
RECURSIVE TakeWhileNonZero(_)
TakeWhileNonZero(m) ==
  IF m = <<>> \/ Head(m) = 0 THEN 0 ELSE 1 + TakeWhileNonZero(Tail(m))

\* String::from_utf16: [ok, s], s the decoded scalar values when ok
RECURSIVE from_utf16(_)
from_utf16(u) ==
  IF u = <<>> THEN [ok |-> TRUE, s |-> <<>>]
  ELSE IF ~IsHighSurrogate(Head(u)) /\ ~IsLowSurrogate(Head(u))
  THEN LET r == from_utf16(Tail(u))
       IN [ok |-> r.ok, s |-> <<Head(u)>> \o r.s]
  ELSE IF IsLowSurrogate(Head(u)) THEN [ok |-> FALSE, s |-> <<>>]
  ELSE IF Len(u) < 2 \/ ~IsLowSurrogate(u[2]) THEN [ok |-> FALSE, s |-> <<>>]
  ELSE LET r == from_utf16(Tail(Tail(u)))
           c == 65536 + (Head(u) - 55296) * 1024 + (u[2] - 56320)
       IN [ok |-> r.ok, s |-> <<c>> \o r.s]

\* mutant of u16_ptr_to_string: unwrap_or_default, an empty string on error
u16_ptr_to_stringDefault(m) ==
  LET len == TakeWhileNonZero(m)
      slice == SubSeq(m, 1, len)
      r == from_utf16(slice)
  IN IF r.ok THEN r.s ELSE <<>>

u16_ptr_to_string(m) ==
  LET len == TakeWhileNonZero(m)
      slice == SubSeq(m, 1, len)
      r == from_utf16(slice)
  IN IF r.ok THEN r.s ELSE EncodingError

----------------------------------------------------------------------------
(* Host state read by the consumer *)

Modes == {"HavokPosition2", "HavokPosition3", "ScreenSpace0", "ScreenSpace1",
          "Normalized4k", "Normalized1080p"}

WindowTypes == {"Windowed", "Fullscreen", "Borderless"}

\* DebugTextRender::window_size
window_size(w) ==
  IF w.avail THEN <<F(w.screen_width), F(w.screen_height)>>
  ELSE <<F(1920), F(1080)>>

\* mutant of window_resolution: the fullscreen arm reads the windowed pair
window_resolutionWindowed(w) ==
  IF w.avail
  THEN CASE w.window_type = "Windowed" ->
              <<F(w.windowed_screen_width), F(w.windowed_screen_height)>>
         [] w.window_type = "Fullscreen" ->
              <<F(w.windowed_screen_width), F(w.windowed_screen_height)>>
         [] w.window_type = "Borderless" ->
              <<F(w.borderless_screen_width), F(w.borderless_screen_height)>>
  ELSE <<F(1920), F(1080)>>

\* DebugTextRender::window_resolution
window_resolution(w) ==
  IF w.avail
  THEN CASE w.window_type = "Windowed" ->
              <<F(w.windowed_screen_width), F(w.windowed_screen_height)>>
         [] w.window_type = "Fullscreen" ->
              <<F(w.fullscreen_width), F(w.fullscreen_height)>>
         [] w.window_type = "Borderless" ->
              <<F(w.borderless_screen_width), F(w.borderless_screen_height)>>
  ELSE <<F(1920), F(1080)>>

----------------------------------------------------------------------------
(* The coordinate transform of render, per coordinate mode *)

\* mutant of Project: scaled by the logical resolution
ProjectLogicalResolution(x, y, z, cam, w) ==
  LET rel == VSub(<<x, y, z>>, cam.position)
      z_cam == Dot(cam.forward, rel)
  IN IF FLeZero(z_cam) THEN <<NaN, NaN>>
     ELSE LET x_cam == Dot(cam.right, rel)
              y_cam == Dot(cam.up, rel)
              m11 == FDiv(F(1), Tan(HalfAngle(cam.fov)))
              m00 == FDiv(m11, cam.aspect_ratio)
              ndc_x == FDiv(FMul(x_cam, m00), z_cam)
              ndc_y == FDiv(FMul(y_cam, m11), z_cam)
              screen_size == window_resolution(w)
          IN <<FMul(FAdd(FMul(ndc_x, Half), Half), screen_size[1]),
               FMul(FAdd(FMul(ndc_y, FNeg(Half)), Half), screen_size[2])>>

\* mutant of Project: no test of z_cam
ProjectNoDepthTest(x, y, z, cam, w) ==
  LET rel == VSub(<<x, y, z>>, cam.position)
      z_cam == Dot(cam.forward, rel)
      x_cam == Dot(cam.right, rel)
      y_cam == Dot(cam.up, rel)
      m11 == FDiv(F(1), Tan(HalfAngle(cam.fov)))
      m00 == FDiv(m11, cam.aspect_ratio)
      ndc_x == FDiv(FMul(x_cam, m00), z_cam)
      ndc_y == FDiv(FMul(y_cam, m11), z_cam)
      screen_size == window_size(w)
  IN <<FMul(FAdd(FMul(ndc_x, Half), Half), screen_size[1]),
       FMul(FAdd(FMul(ndc_y, FNeg(Half)), Half), screen_size[2])>>

\* the world-space branch: lib.rs 170-193
Project(x, y, z, cam, w) ==
  LET rel == VSub(<<x, y, z>>, cam.position)
      z_cam == Dot(cam.forward, rel)
  IN IF FLeZero(z_cam) THEN <<NaN, NaN>>
     ELSE LET x_cam == Dot(cam.right, rel)
              y_cam == Dot(cam.up, rel)
              m11 == FDiv(F(1), Tan(HalfAngle(cam.fov)))
              m00 == FDiv(m11, cam.aspect_ratio)
              ndc_x == FDiv(FMul(x_cam, m00), z_cam)
              ndc_y == FDiv(FMul(y_cam, m11), z_cam)
              screen_size == window_size(w)
          IN <<FMul(FAdd(FMul(ndc_x, Half), Half), screen_size[1]),
               FMul(FAdd(FMul(ndc_y, FNeg(Half)), Half), screen_size[2])>>

\* the match on render_mode: [panic, p]; panic is the unwrap of an
\* unavailable CSCamera instance
Transform(x, y, z, mode, cam, w) ==
  CASE mode \in {"HavokPosition2", "HavokPosition3"} ->
         IF ~cam.avail THEN [panic |-> TRUE, p |-> <<NaN, NaN>>]
         ELSE [panic |-> FALSE, p |-> Project(x, y, z, cam, w)]
    [] mode \in {"ScreenSpace0", "ScreenSpace1"} ->
         LET resolution == window_resolution(w)
             size == window_size(w)
             scale_x == FDiv(size[1], resolution[1])
             scale_y == FDiv(size[2], resolution[2])
         IN [panic |-> FALSE, p |-> <<FMul(x, scale_x), FMul(y, scale_y)>>]
    [] mode = "Normalized4k" ->
         LET screen_size == window_resolution(w)
             diff_x == FDiv(screen_size[1], F(3840))
             diff_y == FDiv(screen_size[2], F(2160))
         IN [panic |-> FALSE, p |-> <<FMul(x, diff_x), FMul(y, diff_y)>>]
    [] mode = "Normalized1080p" ->
         LET screen_size == window_resolution(w)
             diff_x == FDiv(screen_size[1], F(1920))
             diff_y == FDiv(screen_size[2], F(1080))
         IN [panic |-> FALSE, p |-> <<FMul(x, diff_x), FMul(y, diff_y)>>]

----------------------------------------------------------------------------
(* TEXT_RENDER_QUEUE: crossbeam ArrayQueue, each operation one atomic step *)

\* mutant of force_push: the newest command goes to the front
force_pushFront(q, c) ==
  IF Len(q) >= QueueCap THEN <<c>> \o SubSeq(q, 1, Len(q) - 1) ELSE <<c>> \o q

\* mutant of force_push: a full queue rejects the new command (ArrayQueue::push)
force_pushReject(q, c) ==
  IF Len(q) >= QueueCap THEN q ELSE Append(q, c)

\* mutant of force_push: a full queue drops its youngest element
force_pushDropYoungest(q, c) ==
  IF Len(q) >= QueueCap THEN Append(SubSeq(q, 1, Len(q) - 1), c) ELSE Append(q, c)

\* ArrayQueue::force_push: never fails; a full queue drops its oldest element
force_push(q, c) ==
  IF Len(q) >= QueueCap THEN Append(Tail(q), c) ELSE Append(q, c)

\* DrawCommand, with the history fields call (invocation) and by (thread)
TextCmd(text, x, y, z, mode, call, by) ==
  [kind |-> "Text", text |-> text, x |-> x, y |-> y, z |-> z, mode |-> mode,
   call |-> call, by |-> by]

SetOffsetCmd(dx, dy, call, by) ==
  [kind |-> "SetOffset", text |-> <<>>, x |-> dx, y |-> dy, z |-> Zero,
   mode |-> "none", call |-> call, by |-> by]

----------------------------------------------------------------------------
(* Inputs: what the host passes to the interceptors and exposes to render *)

V3(a, b, c) == <<F(a), F(b), F(c)>>

\* the camera instances the host can expose, by name
Cameras ==
  {"std", "back", "none", "tele", "fov0", "fovneg", "aspect0", "aspectneg"}

\* the CSCamera behind a name; "none": CSCamera::instance() is Err.
\* "std" is at the origin looking down +Z, fov 90 degrees, aspect 1;
\* "back" is at (0,0,20) looking down -Z, same lens;
\* the others are in the pose of "std" with another lens: "tele" has fov
\* 2*atan(1/2) and aspect 16/9, "fov0" and "fovneg" a zero and a negative
\* fov, "aspect0" and "aspectneg" a zero and a negative aspect ratio
CameraOf(name) ==
  IF name = "back"
  THEN [avail |-> TRUE, position |-> V3(0, 0, 20), right |-> V3(-1, 0, 0),
        up |-> V3(0, 1, 0), forward |-> V3(0, 0, -1), fov |-> "pi/2",
        aspect_ratio |-> F(1)]
  ELSE [avail |-> name # "none", position |-> V3(0, 0, 0),
        right |-> V3(1, 0, 0), up |-> V3(0, 1, 0), forward |-> V3(0, 0, 1),
        fov |-> CASE name = "tele" -> "2*atan(1/2)"
                  [] name = "fov0" -> "0"
                  [] name = "fovneg" -> "-pi/2"
                  [] OTHER -> "pi/2",
        aspect_ratio |-> CASE name = "tele" -> Frac(16, 9)
                           [] name = "aspect0" -> Zero
                           [] name = "aspectneg" -> F(-1)
                           [] OTHER -> F(1)]

\* the window instances the host can expose, by name
Windows == {"Windowed", "Fullscreen", "Borderless", "none"}

\* the CSWindowImp behind a name; "none": CSWindowImp::instance() is Err.
\* The others have a 1000x1000 render target and that display mode active
WindowOf(name) ==
  [avail |-> name # "none", screen_width |-> 1000, screen_height |-> 1000,
   window_type |-> IF name = "none" THEN "Windowed" ELSE name,
   windowed_screen_width |-> 500, windowed_screen_height |-> 250,
   fullscreen_width |-> 1280, fullscreen_height |-> 720,
   borderless_screen_width |-> 2560, borderless_screen_height |-> 1440]

\* the camera instances the pipeline's host moves between
HostCameras == {"std", "none"}

\* position and coordinate mode of a draw call
Req(x, y, z, mode) == [x |-> F(x), y |-> F(y), z |-> F(z), mode |-> mode]

\* the draw calls of the pipeline: a point in front of the standard camera
\* and a point behind it (every mode is called in the function-level
\* specification)
Requests ==
  {Req(0, 0, 10, "HavokPosition2"), Req(0, 0, -1, "HavokPosition3")}

\* the draw calls of the function-level specification: points in front of,
\* on and behind the camera plane, on and off the axis, and every mode
FnRequests ==
  {Req(pt[1], pt[2], pt[3], m) :
     pt \in {<<0, 0, 10>>, <<0, 0, -1>>, <<5, 0, 0>>, <<10, 5, 10>>,
             <<0, 0, 20>>, <<0, 0, 30>>},
     m \in {"HavokPosition2", "HavokPosition3"}}
  \cup {Req(10, 20, 0, m) : m \in {"ScreenSpace0", "ScreenSpace1"}}
  \cup {Req(3840, 2160, 0, "Normalized4k"), Req(960, 540, 0, "Normalized1080p")}

\* the offsets passed to DrawTextWithOffset
Offsets == {<<F(5), F(5)>>}

\* the draw calls of the host specification: a world point that two camera
\* poses see at different screen positions, and a screen-space point whose
\* scale depends on the display mode
HostRequests == {Req(10, 5, 10, "HavokPosition2"), Req(10, 20, 0, "ScreenSpace0")}

\* the camera poses and the display modes the host specification's host
\* moves between
MovedCameras == {"std", "back"}
MovedWindows == {"Windowed", "Fullscreen"}

\* the draw call of the offset specification: a point the camera sees
OffsetRequests == {Req(0, 0, 10, "HavokPosition2")}

\* the offsets of the offset specification: two that differ from each other
\* and from their sum
OffsetPairs == {<<F(5), F(5)>>, <<F(-3), F(7)>>}

\* u16 code units: NUL, 'A', a high surrogate, a low surrogate
Units == {0, 65, 55357, 56832}

RECURSIVE SeqsUpTo(_, _)
SeqsUpTo(S, n) ==
  IF n = 0 THEN {<<>>}
  ELSE LET T == SeqsUpTo(S, n - 1)
       IN T \cup {Append(t, u) : t \in {t \in T : Len(t) = n - 1}, u \in S}

Buffers == SeqsUpTo(Units, MaxUnits)

NoArgs == [r |-> Req(0, 0, 0, "none"), call |-> 0]

\* no helper has returned yet
NoResult == [done |-> FALSE, size |-> <<Zero, Zero>>, resolution |-> <<Zero, Zero>>]

----------------------------------------------------------------------------
(* Producers: the two detour closures installed by init *)

\* one TEXT_RENDER_QUEUE.force_push(c), with its history
Push(c) ==
  /\ queue' = force_push(queue, c)
  /\ pushed' = Append(pushed, c)
  /\ evicted' = evicted + (IF Len(queue) >= QueueCap THEN 1 ELSE 0)
  /\ quiet' = FALSE

\* the thread a new invocation runs on: threads are interchangeable, so a
\* new invocation takes the first thread that is not inside one
FreeThread(p) == ppc[p] = "idle" /\ \A q \in Producers : q < p => ppc[q] # "idle"

\* DrawTextRenderRequest detour: decode, then push one Text
DrawTextRenderRequest(p, r) ==
  /\ rpc # "panicked"
  /\ FreeThread(p)
  /\ calls < MaxCalls
  /\ calls' = calls + 1
  /\ Push(TextCmd(u16_ptr_to_string(mem), r.x, r.y, r.z, r.mode, calls + 1, p))
  /\ UNCHANGED <<offset, rpc, ppc, pargs, camera, window, rendman, popped,
                 backlog, pops, mem, result>>

\* DrawTextWithOffset detour, first push: SetOffset
DrawTextWithOffsetBegin(p, r, o) ==
  /\ rpc # "panicked"
  /\ FreeThread(p)
  /\ calls < MaxCalls
  /\ calls' = calls + 1
  /\ Push(SetOffsetCmd(o[1], o[2], calls + 1, p))
  /\ ppc' = [ppc EXCEPT ![p] = "mid"]
  /\ pargs' = [pargs EXCEPT ![p] = [r |-> r, call |-> calls + 1]]
  /\ UNCHANGED <<offset, rpc, camera, window, rendman, popped, backlog, pops,
                 mem, result>>

\* DrawTextWithOffset detour, second push: decode, then Text
DrawTextWithOffsetEnd(p) ==
  /\ rpc # "panicked"
  /\ ppc[p] = "mid"
  /\ LET r == pargs[p].r
     IN Push(TextCmd(u16_ptr_to_string(mem), r.x, r.y, r.z, r.mode,
                     pargs[p].call, p))
  /\ ppc' = [ppc EXCEPT ![p] = "idle"]
  /\ pargs' = [pargs EXCEPT ![p] = NoArgs]
  /\ UNCHANGED <<offset, rpc, camera, window, rendman, calls, popped, backlog,
                 pops, mem, result>>

----------------------------------------------------------------------------
(* Consumer: DebugTextRender::render, one invocation per frame *)

\* what render did with a popped command, whether it is the first command
\* its render invocation popped, and the camera and window instances it read
\* for it ("unread" when the command's arm does not read them)
Entry(c, out, base, pos) ==
  [c |-> c, first |-> pops = 0, out |-> out, base |-> base, pos |-> pos,
   cam |-> IF c.mode \in {"HavokPosition2", "HavokPosition3"}
           THEN camera ELSE "unread",
   win |-> IF c.kind = "Text" /\ out # "panic" THEN window ELSE "unread"]

\* mutant of RenderBegin: the offset is local to the invocation
RenderBeginLocalOffset ==
  /\ rpc = "idle"
  /\ offset' = <<Zero, Zero>>
  /\ IF rendman
     THEN rpc' = "drain" /\ backlog' = Len(queue) /\ pops' = 0
     ELSE UNCHANGED <<rpc, backlog, pops>>
  /\ quiet' = TRUE
  /\ UNCHANGED <<queue, ppc, pargs, camera, window, rendman, calls,
                 pushed, popped, evicted, mem, result>>

\* render up to the drain loop: returns at once when RendMan is unavailable
RenderBegin ==
  /\ rpc = "idle"
  /\ IF rendman
     THEN rpc' = "drain" /\ backlog' = Len(queue) /\ pops' = 0
     ELSE UNCHANGED <<rpc, backlog, pops>>
  /\ quiet' = TRUE
  /\ UNCHANGED <<queue, offset, ppc, pargs, camera, window, rendman, calls,
                 pushed, popped, evicted, mem, result>>

\* mutant of RenderPop: a SetOffset adds to the offset held
RenderPopSumOffsets ==
  /\ rpc = "drain"
  /\ queue # <<>>
  /\ LET event == Head(queue)
         t == Transform(event.x, event.y, event.z, event.mode,
                        CameraOf(camera), WindowOf(window))
         none == <<NaN, NaN>>
     IN /\ queue' = Tail(queue)
        /\ pops' = pops + 1
        /\ IF event.kind = "SetOffset"
           THEN /\ offset' = <<FAdd(offset[1], event.x), FAdd(offset[2], event.y)>>
                /\ popped' = Append(popped, Entry(event, "offset", none, none))
                /\ rpc' = rpc
           ELSE IF t.panic
           THEN /\ rpc' = "panicked"
                /\ popped' = Append(popped, Entry(event, "panic", none, none))
                /\ offset' = offset
           ELSE IF ~is_finite(t.p[1]) \/ ~is_finite(t.p[2])
           THEN /\ popped' = Append(popped, Entry(event, "skipped", t.p, none))
                /\ UNCHANGED <<offset, rpc>>
           ELSE /\ popped' = Append(popped,
                     Entry(event, "drawn", t.p,
                           <<FAdd(t.p[1], offset[1]), FAdd(t.p[2], offset[2])>>))
                /\ offset' = <<Zero, Zero>>
                /\ rpc' = rpc
  /\ UNCHANGED <<ppc, pargs, camera, window, rendman, calls, pushed, evicted,
                 backlog, quiet, mem, result>>

\* mutant of RenderPop: the command is read but stays at the head of the queue
RenderPopPeek ==
  /\ rpc = "drain"
  /\ queue # <<>>
  /\ LET event == Head(queue)
         t == Transform(event.x, event.y, event.z, event.mode,
                        CameraOf(camera), WindowOf(window))
         none == <<NaN, NaN>>
     IN /\ queue' = queue
        /\ pops' = pops + 1
        /\ IF event.kind = "SetOffset"
           THEN /\ offset' = <<event.x, event.y>>
                /\ popped' = Append(popped, Entry(event, "offset", none, none))
                /\ rpc' = rpc
           ELSE IF t.panic
           THEN /\ rpc' = "panicked"
                /\ popped' = Append(popped, Entry(event, "panic", none, none))
                /\ offset' = offset
           ELSE IF ~is_finite(t.p[1]) \/ ~is_finite(t.p[2])
           THEN /\ popped' = Append(popped, Entry(event, "skipped", t.p, none))
                /\ UNCHANGED <<offset, rpc>>
           ELSE /\ popped' = Append(popped,
                     Entry(event, "drawn", t.p,
                           <<FAdd(t.p[1], offset[1]), FAdd(t.p[2], offset[2])>>))
                /\ offset' = <<Zero, Zero>>
                /\ rpc' = rpc
  /\ UNCHANGED <<ppc, pargs, camera, window, rendman, calls, pushed, evicted,
                 backlog, quiet, mem, result>>

\* one iteration of the while-let loop: pop a command and handle it
RenderPop ==
  /\ rpc = "drain"
  /\ queue # <<>>
  /\ LET event == Head(queue)
         t == Transform(event.x, event.y, event.z, event.mode,
                        CameraOf(camera), WindowOf(window))
         none == <<NaN, NaN>>
     IN /\ queue' = Tail(queue)
        /\ pops' = pops + 1
        /\ IF event.kind = "SetOffset"
           THEN /\ offset' = <<event.x, event.y>>
                /\ popped' = Append(popped, Entry(event, "offset", none, none))
                /\ rpc' = rpc
           ELSE IF t.panic
           THEN /\ rpc' = "panicked"
                /\ popped' = Append(popped, Entry(event, "panic", none, none))
                /\ offset' = offset
           ELSE IF ~is_finite(t.p[1]) \/ ~is_finite(t.p[2])
           THEN /\ popped' = Append(popped, Entry(event, "skipped", t.p, none))
                /\ UNCHANGED <<offset, rpc>>
           ELSE /\ popped' = Append(popped,
                     Entry(event, "drawn", t.p,
                           <<FAdd(t.p[1], offset[1]), FAdd(t.p[2], offset[2])>>))
                /\ offset' = <<Zero, Zero>>
                /\ rpc' = rpc
  /\ UNCHANGED <<ppc, pargs, camera, window, rendman, calls, pushed, evicted,
                 backlog, quiet, mem, result>>

\* pop() returned None: the loop and the invocation end
RenderEnd ==
  /\ rpc = "drain"
  /\ queue = <<>>
  /\ rpc' = "idle"
  /\ backlog' = 0
  /\ pops' = 0
  /\ UNCHANGED <<queue, offset, ppc, pargs, camera, window, rendman, calls,
                 pushed, popped, evicted, quiet, mem, result>>

\* the host changes the state render reads: the camera instance appears or
\* goes away, RendMan appears or goes away (the window stays as it is in the
\* pipeline; every window state is read in the function-level specification)
HostChange ==
  /\ rpc # "panicked"
  /\ \/ camera' \in HostCameras \ {camera} /\ UNCHANGED <<window, rendman>>
     \/ rendman' = ~rendman /\ UNCHANGED <<camera, window>>
  /\ UNCHANGED <<queue, offset, rpc, ppc, pargs, calls, pushed, popped,
                 evicted, backlog, pops, quiet, mem, result>>

----------------------------------------------------------------------------
(* The pipeline.  The overlay is built after wait_for_system_init        *)
(* (lib.rs 356-366): the host state starts available, and HostChange takes *)
(* it elsewhere.                                                           *)

Init ==
  /\ queue = <<>>
  /\ offset = <<Zero, Zero>>
  /\ rpc = "idle"
  /\ ppc = [p \in Producers |-> "idle"]
  /\ pargs = [p \in Producers |-> NoArgs]
  /\ camera = "std"
  /\ window = "Windowed"
  /\ rendman = TRUE
  /\ calls = 0
  /\ pushed = <<>>
  /\ popped = <<>>
  /\ evicted = 0
  /\ backlog = 0
  /\ pops = 0
  /\ quiet = FALSE
  /\ mem = <<65, 0, 66>>
  /\ result = NoResult

Next ==
  \/ \E p \in Producers, r \in Requests : DrawTextRenderRequest(p, r)
  \/ \E p \in Producers, r \in Requests, o \in Offsets :
       DrawTextWithOffsetBegin(p, r, o)
  \/ \E p \in Producers : DrawTextWithOffsetEnd(p)
  \/ RenderBegin
  \/ RenderPop
  \/ RenderEnd
  \/ HostChange

Spec == Init /\ [][Next]_vars

----------------------------------------------------------------------------
(* Function-level specification: one draw call on one thread, with the     *)
(* text buffer, the window and the camera drawn from wider sets, then      *)
(* render; and the two window reads on their own.                          *)

\* window_size() and window_resolution() of the current window
ReadWindow ==
  /\ ~result.done
  /\ result' = [done |-> TRUE, size |-> window_size(WindowOf(window)),
                resolution |-> window_resolution(WindowOf(window))]
  /\ UNCHANGED <<queue, offset, rpc, ppc, pargs, camera, window, rendman,
                 calls, pushed, popped, evicted, backlog, pops, quiet, mem>>

InitFn ==
  /\ queue = <<>>
  /\ offset = <<Zero, Zero>>
  /\ rpc = "idle"
  /\ ppc = [p \in Producers |-> "idle"]
  /\ pargs = [p \in Producers |-> NoArgs]
  /\ \/ mem \in Buffers /\ camera = "std" /\ window = "Windowed"
     \/ mem = <<65>> /\ camera \in Cameras /\ window \in Windows
  /\ rendman = TRUE
  /\ calls = 0
  /\ pushed = <<>>
  /\ popped = <<>>
  /\ evicted = 0
  /\ backlog = 0
  /\ pops = 0
  /\ quiet = FALSE
  /\ result = NoResult

NextFn ==
  \/ \E r \in FnRequests : calls = 0 /\ DrawTextRenderRequest(1, r)
  \/ \E r \in FnRequests, o \in Offsets :
       calls = 0 /\ DrawTextWithOffsetBegin(1, r, o)
  \/ DrawTextWithOffsetEnd(1)
  \/ RenderBegin
  \/ RenderPop
  \/ RenderEnd
  \/ ReadWindow

SpecFn == InitFn /\ [][NextFn]_vars

----------------------------------------------------------------------------
(* Offset specification: concurrent DrawTextWithOffset calls with          *)
(* different offsets against render, the host state staying available.     *)

NextOffsets ==
  \/ \E p \in Producers, r \in OffsetRequests, o \in OffsetPairs :
       DrawTextWithOffsetBegin(p, r, o)
  \/ \E p \in Producers : DrawTextWithOffsetEnd(p)
  \/ RenderBegin
  \/ RenderPop
  \/ RenderEnd

SpecOffsets == Init /\ [][NextOffsets]_vars

----------------------------------------------------------------------------
(* Host specification: the host moves the camera and switches the display  *)
(* mode, both staying available, while render drains.                      *)

\* the game moves its camera or switches its display mode
HostMove ==
  /\ \/ camera' \in MovedCameras \ {camera} /\ window' = window
     \/ window' \in MovedWindows \ {window} /\ camera' = camera
  /\ UNCHANGED <<queue, offset, rpc, ppc, pargs, rendman, calls, pushed,
                 popped, evicted, backlog, pops, quiet, mem, result>>

NextHost ==
  \/ \E p \in Producers, r \in HostRequests : DrawTextRenderRequest(p, r)
  \/ RenderBegin
  \/ RenderPop
  \/ RenderEnd
  \/ HostMove

SpecHost == Init /\ [][NextHost]_vars

----------------------------------------------------------------------------
(* Reading the histories *)

Pops == 1..Len(popped)

Drawn(i) == popped[i].out = "drawn"

\* entry i was drawn at its transformed position plus off
DrawnAt(i, off) ==
  popped[i].pos = <<FAdd(popped[i].base[1], off[1]), FAdd(popped[i].base[2], off[2])>>

NoOffset == <<Zero, Zero>>

\* the offset of the SetOffset popped immediately before entry i, if any
OffsetJustBefore(i) ==
  IF i > 1 /\ popped[i - 1].c.kind = "SetOffset"
  THEN <<popped[i - 1].c.x, popped[i - 1].c.y>>
  ELSE NoOffset

\* the offset passed to the invocation that pushed the command of entry i
OwnOffset(i) ==
  LET S == {j \in 1..Len(pushed) : /\ pushed[j].kind = "SetOffset"
                                   /\ pushed[j].call = popped[i].c.call}
  IN IF S = {} THEN NoOffset
     ELSE LET j == CHOOSE j \in S : TRUE IN <<pushed[j].x, pushed[j].y>>

\* the commands of thread p in a sequence of commands
OfThread(cmds, p) == LET by(c) == c.by = p IN SelectSeq(cmds, by)

PoppedCmds == [i \in Pops |-> popped[i].c]

----------------------------------------------------------------------------
(* Claims *)

\* C1: a SetOffset applies to the next Text popped after it only, drawn or
\* skipped: every drawn Text is positioned at its transformed position plus
\* the offset of the SetOffset popped immediately before it, and plus (0,0)
\* when the command popped before it is not a SetOffset.
C1_OffsetNextTextOnly ==
  \A i \in Pops : Drawn(i) => DrawnAt(i, OffsetJustBefore(i))

\* C2: while no command has been evicted, the commands popped so far followed
\* by the commands still queued are, thread by thread, exactly the commands
\* that thread pushed, in its push order: none lost, none duplicated, and a
\* full drain pops exactly the N commands pushed.
C2_NoLossPerThreadOrder ==
  evicted = 0 =>
    \A p \in Producers :
      OfThread(PoppedCmds \o queue, p) = OfThread(pushed, p)

\* C2 witness: two threads have pushed concurrently (one is still inside its
\* invocation), nothing was evicted, and the consumer has popped it all.
C2_Witness ==
  /\ evicted = 0
  /\ queue = <<>>
  /\ Len(pushed) >= 2
  /\ Len(popped) = Len(pushed)
  /\ \E i, j \in 1..Len(pushed) : pushed[i].by # pushed[j].by
  /\ \E p \in Producers : ppc[p] = "mid"

\* C3: with the queue not saturated, every drawn Text is positioned with the
\* offset passed to the invocation that pushed it, (0,0) for an invocation of
\* DrawTextRenderRequest, and with no other invocation's offset.
C3_OwnOffsetOnly ==
  evicted = 0 => \A i \in Pops : Drawn(i) => DrawnAt(i, OwnOffset(i))

\* the offset the consumer holds when it reaches entry i: that of the last
\* SetOffset popped before i, in any frame, with no drawn Text after it
Pending(i) ==
  LET S == {j \in 1..(i - 1) : /\ popped[j].c.kind = "SetOffset"
                               /\ \A k \in (j + 1)..(i - 1) : ~Drawn(k)}
  IN IF S = {} THEN NoOffset
     ELSE LET j == CHOOSE j \in S : \A k \in S : k <= j
          IN <<popped[j].c.x, popped[j].c.y>>

\* C4 as stated: offset state is frame-local, so a Text that is the first
\* command popped in its render invocation is positioned with offset (0,0).
C4_OffsetFrameLocal ==
  \A i \in Pops :
    (Drawn(i) /\ popped[i].first) => DrawnAt(i, NoOffset)

\* C4 amended: offset state outlives the render invocation. Every drawn Text
\* is positioned with the offset of the last SetOffset popped before it, in
\* its own or an earlier render invocation, since the last drawn Text; a
\* SetOffset left pending when a drain ends is carried to the next frame.
C4_OffsetCarriedForward ==
  \A i \in Pops : Drawn(i) => DrawnAt(i, Pending(i))

\* C4 witness: a Text drawn right after a SetOffset popped in an earlier frame
C4_Witness ==
  \E i \in Pops :
    /\ i > 1
    /\ Drawn(i)
    /\ popped[i - 1].c.kind = "SetOffset"
    /\ popped[i].first
    /\ ~DrawnAt(i, NoOffset)

\* C5: a push never blocks and never fails. The queue never holds more than
\* its capacity, the second push of an invocation in progress can always be
\* taken, and every push step leaves the pushed command at the back of the
\* queue: appended when there is room, and in place of the oldest command,
\* which alone is dropped, when the queue is full.
C5_PushNeverFails ==
  /\ [](/\ Len(queue) <= QueueCap
        /\ rpc # "panicked" =>
             \A p \in Producers : ppc[p] = "mid" => ENABLED DrawTextWithOffsetEnd(p))
  /\ [][Len(pushed') = Len(pushed) + 1 =>
          LET c == pushed'[Len(pushed')]
          IN /\ queue' # <<>>
             /\ queue'[Len(queue')] = c
             /\ Len(queue') <= QueueCap
             /\ IF Len(queue) = QueueCap
                THEN queue' = Append(Tail(queue), c)
                ELSE queue' = Append(queue, c)]_vars

\* C5 witness: a push has found the queue full, and the queue is full
C5_Witness == evicted > 0 /\ Len(queue) = QueueCap /\ queue[Len(queue)] = pushed[Len(pushed)]

\* C6: render never aborts on unavailable host state: no popped command ends
\* the render invocation in a panic.
C6_RenderNeverAborts ==
  rpc # "panicked" /\ \A i \in Pops : popped[i].out # "panic"

\* camera-space depth of the point of entry i for the camera read with it
ZCamOf(i) ==
  LET cam == CameraOf(popped[i].cam)
  IN Dot(cam.forward, VSub(<<popped[i].c.x, popped[i].c.y, popped[i].c.z>>, cam.position))

WorldProjected(i) ==
  /\ popped[i].c.kind = "Text"
  /\ popped[i].c.mode \in {"HavokPosition2", "HavokPosition3"}
  /\ CameraOf(popped[i].cam).avail

\* C7: a world-projected Text whose camera-space depth is <= 0 is never drawn.
C7_BehindCameraNotDrawn ==
  \A i \in Pops : (WorldProjected(i) /\ FLeZero(ZCamOf(i))) => ~Drawn(i)

\* C7 witness: a Text on the camera plane (z_cam = 0) was popped and skipped
C7_Witness ==
  \E i \in Pops :
    WorldProjected(i) /\ ZCamOf(i) = Zero /\ popped[i].out = "skipped"

\* C8: the drain of one render invocation is bounded by the backlog it found:
\* it pops no more commands than were queued when its loop started.
C8_DrainBoundedByBacklog == pops <= backlog

\* the units of a buffer up to its first NUL
UpToNul(m) ==
  LET n == CHOOSE n \in 0..Len(m) :
             /\ \A k \in 1..n : m[k] # 0
             /\ n = Len(m) \/ m[n + 1] = 0
  IN SubSeq(m, 1, n)

\* every surrogate of u is half of a high-low pair
WellFormedUtf16(u) ==
  \A k \in 1..Len(u) :
    /\ IsHighSurrogate(u[k]) => (k < Len(u) /\ IsLowSurrogate(u[k + 1]))
    /\ IsLowSurrogate(u[k]) => (k > 1 /\ IsHighSurrogate(u[k - 1]))

\* the UTF-16 encoding of a string of scalar values
RECURSIVE EncodeUtf16(_)
EncodeUtf16(str) ==
  IF str = <<>> THEN <<>>
  ELSE (IF Head(str) < 65536 THEN <<Head(str)>>
        ELSE <<55296 + ((Head(str) - 65536) \div 1024),
               56320 + ((Head(str) - 65536) % 1024)>>)
       \o EncodeUtf16(Tail(str))

\* C9: decoding never fails and never truncates. Every finished interceptor
\* invocation has pushed a Text, and the content of every pushed Text is the
\* whole buffer up to its NUL, decoded (it encodes back to exactly those
\* units), or, when the buffer is not well-formed UTF-16, "?EncodingError?".
C9_DecodeWholeOrPlaceholder ==
  /\ \A k \in 1..calls :
       (\A p \in Producers : pargs[p].call # k) =>
         \E i \in 1..Len(pushed) : pushed[i].kind = "Text" /\ pushed[i].call = k
  /\ \A i \in 1..Len(pushed) :
       pushed[i].kind = "Text" =>
         IF WellFormedUtf16(UpToNul(mem))
         THEN EncodeUtf16(pushed[i].text) = UpToNul(mem)
         ELSE pushed[i].text = EncodingError

\* C9 witness: a Text carrying the placeholder, pushed for a buffer with an
\* unpaired surrogate after a decodable unit
C9_Witness ==
  \E i \in 1..Len(pushed) :
    /\ pushed[i].kind = "Text"
    /\ pushed[i].text = EncodingError
    /\ Len(UpToNul(mem)) >= 2
    /\ ~IsHighSurrogate(mem[1]) /\ ~IsLowSurrogate(mem[1])
    /\ queue # <<>> /\ queue[Len(queue)] = pushed[i]

\* C10: reading window state never fails. Without a window instance both the
\* size and the resolution are (1920, 1080); with one, the resolution is the
\* width/height pair of the active display mode.
C10_WindowReads ==
  result.done =>
    LET w == WindowOf(window)
    IN /\ ~w.avail => /\ result.size = <<F(1920), F(1080)>>
                      /\ result.resolution = <<F(1920), F(1080)>>
       /\ (w.avail /\ w.window_type = "Windowed") =>
            result.resolution = <<F(w.windowed_screen_width), F(w.windowed_screen_height)>>
       /\ (w.avail /\ w.window_type = "Fullscreen") =>
            result.resolution = <<F(w.fullscreen_width), F(w.fullscreen_height)>>
       /\ (w.avail /\ w.window_type = "Borderless") =>
            result.resolution = <<F(w.borderless_screen_width), F(w.borderless_screen_height)>>

\* C10 witness: the resolution read in fullscreen mode
C10_Witness ==
  /\ result.done
  /\ window = "Fullscreen"
  /\ result.resolution = <<F(1280), F(720)>>

\* C11: each render invocation drains the queue completely: whenever a
\* render invocation has returned and no producer has pushed since it
\* started, the queue is empty.
C11_DrainsCompletely == (rpc = "idle" /\ quiet) => queue = <<>>

\* entries i < j were popped by the same render invocation
SameFrame(i, j) == \A k \in (i + 1)..j : ~popped[k].first

\* the transformed position of entry i is finite
ValidPos(i) == is_finite(popped[i].base[1]) /\ is_finite(popped[i].base[2])

\* C12: a skipped Text skips only itself: every command popped after it by
\* the same render invocation is processed (a SetOffset is applied, a Text
\* with a valid position is drawn, a Text with an invalid one is skipped),
\* and the invocation has not stopped with commands left behind it.
C12_SkipOnlyThatItem ==
  \A i \in Pops :
    popped[i].out = "skipped" =>
      /\ \A j \in Pops :
           (j > i /\ SameFrame(i, j)) =>
             /\ popped[j].out # "panic"
             /\ popped[j].c.kind = "Text" => (Drawn(j) <=> ValidPos(j))
      /\ (SameFrame(i, Len(popped)) /\ queue # <<>>) => rpc # "panicked"

\* C13: when two SetOffsets are popped with no Text between them, the next
\* Text, when drawn, is positioned with the later offset only: not with the
\* earlier one and not with the sum of both.
C13_LaterOffsetOnly ==
  \A i \in Pops :
    (/\ i > 2
     /\ Drawn(i)
     /\ popped[i - 1].c.kind = "SetOffset"
     /\ popped[i - 2].c.kind = "SetOffset") =>
        /\ popped[i].pos[1] = FAdd(popped[i].base[1], popped[i - 1].c.x)
        /\ popped[i].pos[2] = FAdd(popped[i].base[2], popped[i - 1].c.y)

\* C13 witness: a Text drawn after two SetOffsets of different offsets
C13_Witness ==
  \E i \in Pops :
    /\ i > 2
    /\ Drawn(i)
    /\ popped[i - 1].c.kind = "SetOffset"
    /\ popped[i - 2].c.kind = "SetOffset"
    /\ popped[i - 1].c.x # popped[i - 2].c.x
    /\ popped[i].pos[1] = FAdd(popped[i].base[1], popped[i - 1].c.x)
    /\ popped[i].pos[1] # FAdd(popped[i].base[1], popped[i - 2].c.x)

\* the last n elements of s, all of s when it has fewer
LastN(s, n) == SubSeq(s, (IF Len(s) > n THEN Len(s) - n ELSE 0) + 1, Len(s))

\* s can be obtained from t by deleting elements
RECURSIVE IsSubSeq(_, _)
IsSubSeq(s, t) ==
  IF s = <<>> THEN TRUE
  ELSE IF t = <<>> THEN FALSE
  ELSE IF Head(s) = Head(t) THEN IsSubSeq(Tail(s), Tail(t))
  ELSE IsSubSeq(s, Tail(t))

\* every pop so far came after every push so far: nothing was popped yet, or
\* all pops belong to the render invocation in progress and nothing was
\* pushed since it started
NoPopBetween == popped = <<>> \/ (quiet /\ rpc # "idle" /\ pops = Len(popped))

\* C14: the queue is drop-oldest FIFO. When M commands were pushed with no
\* pop in between, the commands drained so far followed by those still
\* queued are exactly the last min(M, capacity) commands pushed, in push
\* order; and in every state the popped and queued commands are the pushed
\* ones less the evicted ones, in push order, so that no evicted command is
\* popped later and no retained command is reordered.
C14_DropOldestFifo ==
  /\ NoPopBetween => PoppedCmds \o queue = LastN(pushed, QueueCap)
  /\ IsSubSeq(PoppedCmds \o queue, pushed)
  /\ Len(popped) + Len(queue) = Len(pushed) - evicted

\* C14 witness: one producer has pushed more commands than the capacity with
\* no pop in between, and the drain has popped the last QueueCap of them and
\* emptied the queue
C14_Witness ==
  /\ \A i \in 1..Len(pushed) : pushed[i].by = 1
  /\ Len(pushed) > QueueCap
  /\ NoPopBetween
  /\ rpc = "drain"
  /\ queue = <<>>
  /\ Len(popped) = QueueCap
  /\ PoppedCmds = LastN(pushed, QueueCap)

\* C15: every Text of one render invocation is transformed against the same
\* camera and window state: any two commands popped by the same invocation
\* that read the camera read the same camera, and any two that read the
\* window read the same window.
C15_OneSnapshotPerFrame ==
  \A i, j \in Pops :
    (i < j /\ SameFrame(i, j)) =>
      /\ (popped[i].cam # "unread" /\ popped[j].cam # "unread") =>
           popped[i].cam = popped[j].cam
      /\ (popped[i].win # "unread" /\ popped[j].win # "unread") =>
           popped[i].win = popped[j].win

\* the lens read with entry i has a zero or negative fov (the sign of the
\* tangent of the half angle is the sign of the fov) or aspect ratio
DegenerateLens(i) ==
  LET cam == CameraOf(popped[i].cam)
  IN FLeZero(Tan(HalfAngle(cam.fov))) \/ FLeZero(cam.aspect_ratio)

\* C16: a world-projected Text in front of a camera whose fov or aspect ratio
\* is zero or negative is never drawn (and render does not panic on it).
C16_DegenerateLensNotDrawn ==
  \A i \in Pops :
    (WorldProjected(i) /\ ~FLeZero(ZCamOf(i)) /\ DegenerateLens(i)) =>
      popped[i].out = "skipped"

\* the part of C16 that the code keeps: with a zero fov or a zero aspect
\* ratio the item is not drawn
ZeroLensNotDrawn ==
  \A i \in Pops :
    (/\ WorldProjected(i)
     /\ ~FLeZero(ZCamOf(i))
     /\ popped[i].cam \in {"fov0", "aspect0"}) => popped[i].out = "skipped"

\* the point of entry i lies on the forward axis of the camera read with it
OnAxis(i) ==
  LET cam == CameraOf(popped[i].cam)
      rel == VSub(<<popped[i].c.x, popped[i].c.y, popped[i].c.z>>, cam.position)
  IN Dot(cam.right, rel) = Zero /\ Dot(cam.up, rel) = Zero

\* half the physical size of the render target read with entry i:
\* (1920, 1080) halved when there is no window instance
TargetCentre(i) ==
  LET w == WindowOf(popped[i].win)
  IN IF w.avail THEN <<Frac(w.screen_width, 2), Frac(w.screen_height, 2)>>
     ELSE <<F(960), F(540)>>

\* C17: a world-projected point on the camera's forward axis in front of the
\* camera is drawn, and maps to the centre (W/2, H/2) of the physical render
\* target, for every lens with positive fov and aspect ratio and whatever
\* the logical resolution.
C17_OnAxisMapsToCentre ==
  \A i \in Pops :
    (/\ WorldProjected(i)
     /\ ~FLeZero(ZCamOf(i))
     /\ OnAxis(i)
     /\ ~DegenerateLens(i)) =>
        Drawn(i) /\ popped[i].base = TargetCentre(i)

\* C17 witness: camera at the origin looking down +Z, fov 90 degrees, aspect
\* 1, size 1000x1000, logical resolution 500x250: (0,0,10) maps to (500,500)
C17_Witness ==
  \E i \in Pops :
    /\ popped[i].cam = "std"
    /\ popped[i].win = "Windowed"
    /\ <<popped[i].c.x, popped[i].c.y, popped[i].c.z>> = V3(0, 0, 10)
    /\ WorldProjected(i)
    /\ Drawn(i)
    /\ popped[i].base = <<F(500), F(500)>>

\* C18: every drawn item is a Text command that an interceptor pushed, and
\* no pushed command is drawn (or even popped) twice: the popped commands
\* are pairwise different pushed commands, and none of them is queued again.
C18_DrawnOncePushed ==
  /\ \A i \in Pops :
       Drawn(i) =>
         /\ popped[i].c.kind = "Text"
         /\ \E j \in 1..Len(pushed) : pushed[j] = popped[i].c
  /\ \A i, j \in Pops : i < j => popped[i].c # popped[j].c
  /\ \A i \in Pops : \A k \in 1..Len(queue) : queue[k] # popped[i].c

\* C18 witness: two pushed Texts of equal content and position were drawn,
\* each once, in different render invocations
C18_Witness ==
  \E i, j \in Pops :
    /\ i < j
    /\ Drawn(i) /\ Drawn(j)
    /\ ~SameFrame(i, j)
    /\ popped[i].c.call # popped[j].c.call
    /\ [popped[i].c EXCEPT !.call = 0, !.by = 0] = [popped[j].c EXCEPT !.call = 0, !.by = 0]
    /\ Len(popped) = Len(pushed)

====
